---------------------------- MODULE Spec2Model ----------------------------
(***************************************************************************)
(* A model of the raster-sandbox scripts:                                  *)
(*   learning/cors_server.py      the CORS static file server              *)
(*   learning/raster_tiles.py     batch driver + viewer + CORS server      *)
(*   learning/raster_tiles_v2.py  batch driver (gdal2tiles.py only)        *)
(*                                                                         *)
(* Strings that the code takes apart (file names, URLs, the HTML document) *)
(* are modelled as records or sequences of tokens, so that the code's      *)
(* string operations (lower(), endswith(), splitext(), f-strings) are      *)
(* operators that compute something.                                       *)
(***************************************************************************)
EXTENDS Integers, Sequences, FiniteSets, TLC

(* ------------------------------ bounds -------------------------------- *)
\* the largest number of entries the input directory holds
MaxFiles == 3
\* the largest number of requests the server answers before the interrupt
MaxRequests == 2
\* the largest value int(time.time()) takes, counted from the start of the run
MaxClock == 1
\* the largest number of sources generate_html_viewer is called with
MaxSources == 2
\* the largest number of calls of generate_html_viewer in a row
MaxCalls == 2
\* the number of lines a pipe holds before a write to it blocks
PipeCapacity == 2
\* the largest number of lines the spawned tool writes before it exits
MaxWrites == 3

(* --------------------------- sequence helpers -------------------------- *)
Range(s) == {s[k] : k \in 1..Len(s)}

(* ------------------------------ file names ----------------------------- *)
\* A directory entry "<stem>.<ext>", kept as its two parts.
File(stem, ext) == [stem |-> stem, ext |-> ext]

\* The entries an input directory is drawn from, in the order the operating
\* system lists them.
Universe ==
    << File("alpha", "tif"), File("beta", "TIF"),
       File("alpha", "tiff"), File("notes", "txt") >>

\* str.lower() on the extensions that occur
lower(e) ==
    CASE e = "TIF" -> "tif"
      [] e = "TIFF" -> "tiff"
      [] e = "Tiff" -> "tiff"
      [] OTHER -> e

\* f.lower().endswith(('.tif', '.tiff'))          raster_tiles.py:238
IsTifName(f) == lower(f.ext) \in {"tif", "tiff"}

\* Path(input_dir).glob('*.tif'): the pattern is matched as written, with
\* the case of the name kept (POSIX)               raster_tiles_v2.py:146
GlobTif(f) == f.ext = "tif"

\* os.path.splitext(os.path.basename(tif_file))[0] raster_tiles.py:269
source_name(f) == f.stem


(* ------------------------------ variables ------------------------------ *)
VARIABLES
    prog,               \* which script runs: "cors_server", "raster_tiles", "raster_tiles_v2"
    args,               \* the parsed command line
    env,                \* what the machine holds: directory entries, installed tools
    pc,                 \* the position of the script
    tif_files,          \* the files the driver found, in scan order
    idx,                \* the index of the next file of tif_files
    processed_sources,  \* raster_tiles.py: the list process_with_gdal_cli builds
    success_count,      \* raster_tiles_v2.py: main's counter
    invocations,        \* every external process spawned so far, in order
    fs,                 \* the directories: which exist, temporary VRTs (and those os.remove
                        \* failed on), tile trees, viewer.html
    clock,              \* int(time.time())
    exitCode,           \* the process exit code, "none" while it runs
    handler,            \* the request handler class of the server
    srv,                \* "none" (not created), "listening", "stopped"
    sock,               \* the listening socket: "none", "open", "closed"
    proc,               \* "running" or "exited"
    nreq,               \* requests accepted so far
    lastReq,            \* the last request accepted
    resp,               \* the response to it
    fsops,              \* the filesystem calls made while answering it
    gen,                \* generate_html_viewer called on its own: the calls so far and
                        \* the viewer.html of each output directory
    pipe                \* process_raster_cli and the process it spawned: the two pipes,
                        \* what the tool still writes, where the driver is

vars == << prog, args, env, pc, tif_files, idx, processed_sources, success_count,
           invocations, fs, clock, exitCode,
           handler, srv, sock, proc, nreq, lastReq, resp, fsops, gen, pipe >>

auxVars == << gen, pipe >>

driverVars == << tif_files, idx, processed_sources, success_count,
                 invocations, fs, clock >>
serverVars == << handler, srv, sock, nreq, lastReq, resp, fsops >>

(* ============================ the CORS server ========================== *)
Handlers == {"CORSHTTPRequestHandler", "RasterTileServer"}

\* What the served directory holds at each request path.
\*   file     a readable file            missing  nothing there
\*   locked   a file open() fails on     dir      a directory, no index file
\*   dirindex a directory with index.html
PathKind ==
    [p \in {"/alpha/0/0/0.png", "/nope.png", "/locked.png",
            "/alpha", "/alpha/", "/site/"} |->
        CASE p = "/alpha/0/0/0.png" -> "file"
          [] p = "/nope.png"        -> "missing"
          [] p = "/locked.png"      -> "locked"
          [] p = "/alpha"           -> "dir"
          [] p = "/alpha/"          -> "dir"
          [] p = "/site/"           -> "dirindex"]
Paths == DOMAIN PathKind

EndsWithSlash(p) == p \in {"/alpha/", "/site/"}

\* A well-formed HTTP/1.x request line plus the one request header the
\* handler looks at (If-Modified-Since naming a time not before the file's).
Requests ==
    [method : {"GET", "HEAD", "OPTIONS", "POST"},
     path : Paths,
     version : {"HTTP/1.0", "HTTP/1.1"},
     fresh : BOOLEAN]

NoRequest == [method |-> "none", path |-> "none", version |-> "none", fresh |-> FALSE]
NoResponse == [status |-> 0, headers |-> <<>>, body |-> <<>>]

Hdr(name, value) == <<name, value>>

\* BaseHTTPRequestHandler.send_response: the status line and two headers
send_response(code) ==
    [status |-> code, headers |-> << Hdr("Server", "SimpleHTTP"), Hdr("Date", "now") >>,
     body |-> <<>>]

send_header(r, name, value) == [r EXCEPT !.headers = @ \o << Hdr(name, value) >>]

\* The value of Access-Control-Allow-Headers in each handler class
AllowHeadersValue(h) == IF h = "CORSHTTPRequestHandler" THEN "Content-Type" ELSE "*"

\* A mutant of end_headers: error replies skip the overridden method
end_headers_success_only(h, r) ==
    IF r.status >= 400 THEN r
    ELSE send_header(
            send_header(
                send_header(r, "Access-Control-Allow-Origin", "*"),
                "Access-Control-Allow-Methods", "GET, OPTIONS"),
            "Access-Control-Allow-Headers", AllowHeadersValue(h))

\* end_headers of both handler classes: three headers, then the base class
\* ends the header section
end_headers(h, r) ==
    send_header(
        send_header(
            send_header(r, "Access-Control-Allow-Origin", "*"),
            "Access-Control-Allow-Methods", "GET, OPTIONS"),
        "Access-Control-Allow-Headers", AllowHeadersValue(h))

\* A reply of the handler: the response and the filesystem calls it took
Reply(r, ops) == [resp |-> r, fsops |-> ops]

\* BaseHTTPRequestHandler.send_error
send_error(h, req, code) ==
    LET r0 == send_header(send_response(code), "Connection", "close")
        r1 == send_header(send_header(r0, "Content-Type", "text/html"),
                          "Content-Length", "len(error page)")
        r2 == end_headers(h, r1)
    IN  IF req.method = "HEAD" THEN r2 ELSE [r2 EXCEPT !.body = <<"error page">>]

\* SimpleHTTPRequestHandler.send_head, with the body do_GET copies after it
send_head(h, req) ==
    LET kind == PathKind[req.path]
        body(b) == IF req.method = "HEAD" THEN <<>> ELSE b
        ok(ctype, len, b) ==
            [end_headers(h,
                send_header(send_header(send_header(send_response(200),
                    "Content-type", ctype), "Content-Length", len),
                    "Last-Modified", "mtime"))
             EXCEPT !.body = body(b)]
    IN  CASE kind \in {"dir", "dirindex"} /\ ~EndsWithSlash(req.path) ->
               Reply(end_headers(h,
                        send_header(send_header(send_response(301),
                            "Location", "self.path + '/'"), "Content-Length", "0")),
                     <<"translate_path", "isdir">>)
          [] kind = "dir" /\ EndsWithSlash(req.path) ->
               Reply([end_headers(h,
                        send_header(send_header(send_response(200),
                            "Content-type", "text/html"), "Content-Length", "len(listing)"))
                      EXCEPT !.body = body(<<"listing", req.path>>)],
                     <<"translate_path", "isdir", "isfile", "isfile", "listdir">>)
          [] kind = "dirindex" ->
               Reply(ok("text/html", "len(index.html)", <<"file", req.path, "index.html">>),
                     <<"translate_path", "isdir", "isfile", "open", "fstat">>)
          [] kind \in {"missing", "locked"} ->
               Reply(send_error(h, req, 404), <<"translate_path", "isdir", "open">>)
          [] kind = "file" /\ req.fresh ->
               Reply(end_headers(h, send_response(304)),
                     <<"translate_path", "isdir", "open", "fstat">>)
          [] kind = "file" /\ ~req.fresh ->
               Reply(ok("image/png", "len(file)", <<"file", req.path>>),
                     <<"translate_path", "isdir", "open", "fstat">>)

\* A mutant of do_OPTIONS: the preflight is answered like a GET of the path
do_OPTIONS_as_GET(h, req) == send_head(h, [req EXCEPT !.method = "GET"])

\* do_OPTIONS of both handler classes
do_OPTIONS(h, req) == Reply(end_headers(h, send_response(200)), <<>>)

\* BaseHTTPRequestHandler.handle_one_request: dispatch on do_<command>
handle_one_request(h, req) ==
    CASE req.method = "OPTIONS" -> do_OPTIONS(h, req)
      [] req.method \in {"GET", "HEAD"} -> send_head(h, req)
      [] OTHER -> Reply(send_error(h, req, 501), <<>>)

\* A mutant of Accepting: the accept loop outlives the interrupt
Accepting_after_interrupt == proc = "running" /\ srv # "none"

\* httpd.serve_forever() is running: the loop accepts connections until the
\* KeyboardInterrupt leaves it
Accepting == srv = "listening" /\ proc = "running"

\* serve_forever accepts one connection and answers its request
HandleRequest ==
    /\ Accepting
    /\ nreq < MaxRequests
    /\ \E req \in Requests :
          LET out == handle_one_request(handler, req)
          IN  /\ lastReq' = req
              /\ resp' = out.resp
              /\ fsops' = out.fsops
    /\ nreq' = nreq + 1
    /\ UNCHANGED << auxVars, prog, args, env, pc, driverVars, exitCode, handler, srv, sock, proc >>

\* What the except KeyboardInterrupt clause does to the listening socket:
\* cors_server.py calls httpd.server_close(), raster_tiles.py calls
\* httpd.shutdown(), which leaves the socket as it is.
SocketAfterHandler(p, s) == IF p = "cors_server" THEN "closed" ELSE s

\* Ctrl+C while serve_forever runs: the loop ends and the except clause runs
Interrupt ==
    /\ srv = "listening"
    /\ proc = "running"
    /\ srv' = "stopped"
    /\ sock' = SocketAfterHandler(prog, sock)
    /\ pc' = "return"
    /\ UNCHANGED << auxVars, prog, args, env, driverVars, exitCode, handler, proc,
                    nreq, lastReq, resp, fsops >>

\* The exit code once the server has stopped: cors_server.py runs off the end
\* of the script, raster_tiles.py does sys.exit(main()) with main returning 0
ExitCodeAfterServer(p) == 0

\* main returns after the server stopped and the process ends; the operating
\* system closes whatever socket is still open
ProcessExit ==
    /\ pc = "return"
    /\ proc = "running"
    /\ proc' = "exited"
    /\ sock' = "closed"
    /\ exitCode' = ExitCodeAfterServer(prog)
    /\ pc' = "exited"
    /\ UNCHANGED << auxVars, prog, args, env, driverVars, handler, srv, nreq, lastReq, resp, fsops >>


(* ========================= the viewer document ========================= *)
\* str(port) inside the f-string
PortStr(p) ==
    CASE p = 8090 -> "8090"
      [] p = 8091 -> "8091"
      [] OTHER -> "?"

\* A piece of the document: literal template text, or one L.tileLayer(...)
\* call.  key is the rasterLayers[...] entry the layer is assigned to ("" for
\* the layer that is added to the map directly), url the URL template split
\* where the f-string splices its values.
Text(id) == [kind |-> "text", key |-> id, url |-> <<>>]
TileLayer(key, url) == [kind |-> "tileLayer", key |-> key, url |-> url]

\* raster_tiles.py:133   the OpenStreetMap base layer
BaseLayer ==
    TileLayer("", << "https://{s}.tile.openstreetmap.org", "/{z}/{x}/{y}", ".png" >>)

\* A mutant of SourceUrl: the default port is written into the template
SourceUrl_default_port(source, port) ==
    << "http://localhost:", "8090", "/", source, "/{z}/{x}/{y}", ".png" >>

\* raster_tiles.py:146   the URL template of one source
SourceUrl(source, port) ==
    << "http://localhost:", PortStr(port), "/", source, "/{z}/{x}/{y}", ".png" >>

\* raster_tiles.py:144-151   for source in sources: html_content += ...
RECURSIVE SourceLayers(_, _)
SourceLayers(sources, port) ==
    IF sources = <<>> THEN <<>>
    ELSE << TileLayer(Head(sources), SourceUrl(Head(sources), port)) >>
         \o SourceLayers(Tail(sources), port)

\* generate_html_viewer: the content written to <output_dir>/viewer.html
generate_html_viewer(sources, port) ==
    << Text("head, style, map div, leaflet script, L.map"),
       BaseLayer,
       Text("const rasterLayers = {'OpenStreetMap': null}") >>
    \o SourceLayers(sources, port)
    \o << Text("layer controls, fit to first layer") >>

NoViewer == <<>>

\* A mutant of write_file: the file is opened for appending
write_file_append(old, content) == old \o content

\* with open(html_path, 'w') as f: f.write(html_content): the file is
\* truncated, then holds the content           raster_tiles.py:215-216
write_file(old, content) == content

\* os.path.join(output_dir, 'viewer.html')      raster_tiles.py:87
html_path(output_dir) == << output_dir, "viewer.html" >>


(* ============================ the environment ========================== *)
NoFile == File("", "")
VersionArg == File("--version", "")

\* The entries of Universe at the positions S, from position k on, in order
RECURSIVE Pick(_, _)
Pick(S, k) ==
    IF k > Len(Universe) THEN <<>>
    ELSE (IF k \in S THEN << Universe[k] >> ELSE <<>>) \o Pick(S, k + 1)

\* The directory listings os.listdir / Path.glob can return
Listings ==
    { Pick(S, 1) : S \in { T \in SUBSET (1..Len(Universe)) : Cardinality(T) <= MaxFiles } }

\* [... for f in os.listdir(input_dir) if f.lower().endswith(('.tif', '.tiff'))]
RECURSIVE ListTifFiles(_)
ListTifFiles(listing) ==
    IF listing = <<>> THEN <<>>
    ELSE (IF IsTifName(Head(listing)) THEN << Head(listing) >> ELSE <<>>)
         \o ListTifFiles(Tail(listing))

\* list(Path(args.input_dir).glob('*.tif'))
RECURSIVE GlobTifFiles(_)
GlobTifFiles(listing) ==
    IF listing = <<>> THEN <<>>
    ELSE (IF GlobTif(Head(listing)) THEN << Head(listing) >> ELSE <<>>)
         \o GlobTifFiles(Tail(listing))

\* A set as a list, in some order (os.listdir of the output directory)
RECURSIVE SetToSeq(_)
SetToSeq(S) ==
    IF S = {} THEN <<>>
    ELSE LET x == CHOOSE y \in S : TRUE IN << x >> \o SetToSeq(S \ {x})

\* One spawned external process: the tool, the file it was given, and how it
\* ended: 0, a non-zero exit code (1), or -1 when the command does not exist
\* (FileNotFoundError from subprocess)
Invocation(tool, file, rc) == [tool |-> tool, file |-> file, rc |-> rc]

\* How "<tool> --version" ends for a tool that is installed ("ok"), absent
\* ("missing") or installed but failing ("broken")
ProbeRc(state) ==
    CASE state = "ok" -> 0
      [] state = "missing" -> -1
      [] OTHER -> 1

\* sys.exit(code), or main returning code to sys.exit
Exit(code) ==
    /\ exitCode' = code
    /\ proc' = "exited"
    /\ pc' = "exited"

\* A mutant of makedirs: a directory that is missing stays missing
makedirs_keeps_missing(exists) == exists

\* os.makedirs(path, exist_ok=True): whether the directory exists afterwards
makedirs(exists) == TRUE

(* ===================== raster_tiles.py: the batch driver =============== *)
\* main, lines 344-357: parse the arguments, create both directories, choose
\* the branch
MainSetup ==
    /\ prog = "raster_tiles"
    /\ pc = "main"
    /\ fs' = [fs EXCEPT !.input_exists = makedirs(@), !.output_exists = makedirs(@)]
    /\ pc' = IF args.serve_only THEN "serve_only"
             ELSE IF env.RASTER_TILER_AVAILABLE /\ ~args.force_cli THEN "tiler"
             ELSE "cli"
    /\ UNCHANGED << auxVars, prog, args, env, tif_files, idx, processed_sources, success_count,
                    invocations, clock, exitCode, serverVars, proc >>

\* main, lines 359-375: RasterTiler(...).process_all_tifs() either raises, and
\* main falls back to process_with_gdal_cli, or returns the names it processed
TilerProcessAll ==
    /\ prog = "raster_tiles"
    /\ pc = "tiler"
    /\ \/ /\ pc' = "cli"
          /\ UNCHANGED << processed_sources, fs >>
       \/ \E S \in SUBSET (1..Len(ListTifFiles(env.listing))) :
             LET done == ListTifFiles(env.listing)
                 chosen == [k \in 1..Len(done) |-> k \in S]
                 RECURSIVE Names(_)
                 Names(k) == IF k > Len(done) THEN <<>>
                             ELSE (IF chosen[k] THEN << source_name(done[k]) >> ELSE <<>>)
                                  \o Names(k + 1)
             IN  /\ processed_sources' = Names(1)
                 /\ fs' = [fs EXCEPT !.tiledirs = @ \cup Range(Names(1))]
                 /\ pc' = "viewer"
    /\ UNCHANGED << auxVars, prog, args, env, tif_files, idx, success_count,
                    invocations, clock, exitCode, serverVars, proc >>

\* The value process_with_gdal_cli returns when the tool probe fails
\* (raster_tiles.py:231-234)
ReturnOnProbeFailure == <<>>

\* process_with_gdal_cli, lines 228-264: probe the tool, list the input
\* directory, return [] when either finds nothing
CliBegin ==
    /\ prog = "raster_tiles"
    /\ pc = "cli"
    /\ LET rc == ProbeRc(env.gdal2tiles)
           found == ListTifFiles(env.listing)
       IN  /\ invocations' = Append(invocations, Invocation("gdal2tiles.py", VersionArg, rc))
           /\ IF rc # 0
              THEN /\ processed_sources' = ReturnOnProbeFailure
                   /\ pc' = "viewer"
                   /\ UNCHANGED << tif_files, idx >>
              ELSE IF found = <<>>
              THEN /\ processed_sources' = <<>>
                   /\ pc' = "viewer"
                   /\ UNCHANGED << tif_files, idx >>
              ELSE /\ processed_sources' = <<>>
                   /\ tif_files' = found
                   /\ idx' = 1
                   /\ pc' = "cli_loop"
    /\ UNCHANGED << auxVars, prog, args, env, success_count, fs, clock, exitCode, serverVars, proc >>

\* format_map.get(output_format.lower(), "PNG")     raster_tiles.py:257-262
format_map(fmt) ==
    CASE fmt = "png" -> "PNG"
      [] fmt = "jpg" -> "JPEG"
      [] fmt = "webp" -> "WEBP"
      [] OTHER -> "PNG"

\* The extension gdal2tiles.py gives the tiles it writes for --format
\* (raster_tiles.py:299)
TileExtension(gdal_format) ==
    CASE gdal_format = "PNG" -> ".png"
      [] gdal_format = "JPEG" -> ".jpg"
      [] gdal_format = "WEBP" -> ".webp"

\* How one iteration of the loop can go.  warp, tiles: how gdalwarp and
\* gdal2tiles.py end; left: whether a failing gdalwarp had already written
\* its output file; rm: whether os.remove succeeds.
CliOutcomes ==
    { [warp |-> -1, left |-> FALSE, tiles |-> 0, rm |-> TRUE],
      [warp |-> 1,  left |-> FALSE, tiles |-> 0, rm |-> TRUE],
      [warp |-> 1,  left |-> TRUE,  tiles |-> 0, rm |-> TRUE],
      [warp |-> 0,  left |-> TRUE,  tiles |-> 1, rm |-> TRUE],
      [warp |-> 0,  left |-> TRUE,  tiles |-> 0, rm |-> TRUE],
      [warp |-> 0,  left |-> TRUE,  tiles |-> 0, rm |-> FALSE] }

\* os.path.join(output_dir, f"temp_web_mercator_{source_name}_{int(time.time())}.vrt")
vrt_path(f, t) == [source |-> source_name(f), t |-> t]

\* The temporary files in the output directory after one iteration that
\* started with the files vrts
VrtsAfter(vrts, vrt, o) ==
    IF o.warp # 0 THEN (IF o.left THEN vrts \cup {vrt} ELSE vrts)
    ELSE IF o.tiles # 0 THEN vrts \cup {vrt}
    ELSE IF o.rm THEN vrts \ {vrt}
    ELSE vrts \cup {vrt}

\* The temporary files "Could not remove temporary file" was logged for
UnremovedAfter(unremoved, vrt, o) ==
    IF o.warp = 0 /\ o.tiles = 0 /\ ~o.rm THEN unremoved \cup {vrt} ELSE unremoved

\* The processes one iteration spawns
SpawnedBy(f, o) ==
    << Invocation("gdalwarp", f, o.warp) >>
    \o (IF o.warp = 0 THEN << Invocation("gdal2tiles.py", f, o.tiles) >> ELSE <<>>)

\* A mutant of ProcessedAfter: the name is appended once gdalwarp succeeded,
\* whatever gdal2tiles.py did
ProcessedAfter_ignores_tiling(done, f, o) ==
    IF o.warp = 0 THEN Append(done, source_name(f)) ELSE done

\* processed_sources after one iteration: the name is appended when neither
\* subprocess.run(..., check=True) raised
ProcessedAfter(done, f, o) ==
    IF o.warp = 0 /\ o.tiles = 0 THEN Append(done, source_name(f)) ELSE done

\* process_with_gdal_cli, lines 266-316: one iteration of the loop over
\* tif_files; after the last one the function returns processed_sources
CliFile ==
    /\ prog = "raster_tiles"
    /\ pc = "cli_loop"
    /\ idx <= Len(tif_files)
    /\ \E o \in CliOutcomes, t \in {clock, clock + 1} :
          LET f == tif_files[idx]
          IN  /\ t <= MaxClock
              /\ clock' = t
              /\ fs' = [fs EXCEPT !.tiledirs = @ \cup {source_name(f)},
                                  !.vrts = VrtsAfter(@, vrt_path(f, clock), o),
                                  !.unremoved = UnremovedAfter(@, vrt_path(f, clock), o)]
              /\ invocations' = invocations \o SpawnedBy(f, o)
              /\ processed_sources' = ProcessedAfter(processed_sources, f, o)
    /\ idx' = idx + 1
    /\ pc' = IF idx = Len(tif_files) THEN "viewer" ELSE "cli_loop"
    /\ UNCHANGED << auxVars, prog, args, env, tif_files, success_count, exitCode, serverVars, proc >>

\* main, lines 389-398: serve-only mode lists the directories of the output
\* directory and returns 1 when there is none
ServeOnlyScan ==
    /\ prog = "raster_tiles"
    /\ pc = "serve_only"
    /\ processed_sources' = SetToSeq(fs.tiledirs)
    /\ IF fs.tiledirs = {}
       THEN Exit(1)
       ELSE /\ pc' = "viewer"
            /\ UNCHANGED << exitCode, proc >>
    /\ UNCHANGED << auxVars, prog, args, env, tif_files, idx, success_count,
                    invocations, fs, clock, serverVars >>

\* main, lines 400-406: write the viewer document
WriteViewer ==
    /\ prog = "raster_tiles"
    /\ pc = "viewer"
    /\ fs' = [fs EXCEPT !.viewer =
                  write_file(@, generate_html_viewer(processed_sources, args.port))]
    /\ pc' = "server"
    /\ UNCHANGED << auxVars, prog, args, env, tif_files, idx, processed_sources, success_count,
                    invocations, clock, exitCode, serverVars, proc >>

\* A mutant of StartServer: main calls start_server where it should write the
\* viewer, and serve_forever never returns to write it
StartServer_before_viewer ==
    /\ prog = "raster_tiles"
    /\ pc \in {"viewer", "server"}
    /\ handler' = "RasterTileServer"
    /\ srv' = "listening"
    /\ sock' = "open"
    /\ pc' = "serving"
    /\ UNCHANGED << auxVars, prog, args, env, driverVars, exitCode, proc, nreq, lastReq, resp, fsops >>

\* start_server, lines 58-69: create the TCPServer and enter serve_forever
StartServer ==
    /\ prog = "raster_tiles"
    /\ pc = "server"
    /\ handler' = "RasterTileServer"
    /\ srv' = "listening"
    /\ sock' = "open"
    /\ pc' = "serving"
    /\ UNCHANGED << auxVars, prog, args, env, driverVars, exitCode, proc, nreq, lastReq, resp, fsops >>

\* cors_server.py main, lines 64-86: create the TCPServer and enter
\* serve_forever
CorsMain ==
    /\ prog = "cors_server"
    /\ pc = "main"
    /\ handler' = "CORSHTTPRequestHandler"
    /\ srv' = "listening"
    /\ sock' = "open"
    /\ pc' = "serving"
    /\ UNCHANGED << auxVars, prog, args, env, driverVars, exitCode, proc, nreq, lastReq, resp, fsops >>


(* =================== raster_tiles_v2.py: the batch driver ============== *)
\* check_gdal_command_line: gdal_translate --version exits with code 0
check_gdal_command_line(state) == ProbeRc(state) = 0

\* main, lines 121-137: probe the tool, stop when neither the bindings nor the
\* command-line tools are there, create the output directory
V2Check ==
    /\ prog = "raster_tiles_v2"
    /\ pc = "main"
    /\ invocations' = Append(invocations,
                             Invocation("gdal_translate", VersionArg, ProbeRc(env.gdal_translate)))
    /\ IF ~env.HAS_GDAL /\ ~check_gdal_command_line(env.gdal_translate)
       THEN /\ Exit(1)
            /\ UNCHANGED fs
       ELSE /\ fs' = [fs EXCEPT !.output_exists = makedirs(@)]
            /\ pc' = "v2_scan"
            /\ UNCHANGED << exitCode, proc >>
    /\ UNCHANGED << auxVars, prog, args, env, tif_files, idx, processed_sources, success_count,
                    clock, serverVars >>

\* The files main is going to process: the single file asked for, or the
\* matches of the glob (raster_tiles_v2.py:140-146)
V2Files(single_file, listing) ==
    IF single_file # NoFile THEN << single_file >> ELSE GlobTifFiles(listing)

\* main, lines 139-155: find the files, stop when there is none
V2Scan ==
    /\ prog = "raster_tiles_v2"
    /\ pc = "v2_scan"
    /\ LET found == V2Files(args.single_file, env.listing)
       IN  IF \/ (args.single_file # NoFile /\ args.single_file \notin Range(env.listing))
              \/ found = <<>>
           THEN /\ Exit(1)
                /\ UNCHANGED << tif_files, idx, success_count >>
           ELSE /\ tif_files' = found
                /\ idx' = 1
                /\ success_count' = 0
                /\ pc' = "v2_loop"
                /\ UNCHANGED << exitCode, proc >>
    /\ UNCHANGED << auxVars, prog, args, env, processed_sources, invocations, fs, clock, serverVars >>

\* How subprocess.Popen(['gdal2tiles.py', ...]) can end for one file
PopenOutcomes(state) == IF state = "missing" THEN {-1} ELSE {0, 1}

\* process_raster_cli: True when the process was spawned and exited with 0
process_raster_cli(rc) == rc = 0

\* main, lines 156-166: one iteration of the loop (process_raster_python calls
\* process_raster_cli, so both branches spawn gdal2tiles.py)
V2File ==
    /\ prog = "raster_tiles_v2"
    /\ pc = "v2_loop"
    /\ idx <= Len(tif_files)
    /\ \E rc \in PopenOutcomes(env.gdal2tiles) :
          /\ invocations' = Append(invocations, Invocation("gdal2tiles.py", tif_files[idx], rc))
          /\ success_count' = IF process_raster_cli(rc) THEN success_count + 1 ELSE success_count
    /\ idx' = idx + 1
    /\ pc' = IF idx = Len(tif_files) THEN "v2_done" ELSE "v2_loop"
    /\ UNCHANGED << auxVars, prog, args, env, tif_files, processed_sources, fs, clock, exitCode,
                    serverVars, proc >>

\* The exit code after the loop (raster_tiles_v2.py:170-175)
V2ExitCode(count, total) == IF count = total THEN 0 ELSE 1

\* main, lines 168-175
V2Exit ==
    /\ prog = "raster_tiles_v2"
    /\ pc = "v2_done"
    /\ Exit(V2ExitCode(success_count, Len(tif_files)))
    /\ UNCHANGED << auxVars, prog, args, env, driverVars, serverVars >>

(* ================== generate_html_viewer called on its own ============= *)
\* the values of --port the model runs with
Ports == {8090, 8091}
OutputDirs == {"raster_tiles", "out"}
SourceNames == {"alpha", "beta"}

\* The lists of at most n source names
RECURSIVE SourceLists(_)
SourceLists(n) ==
    IF n = 0 THEN { <<>> }
    ELSE SourceLists(n - 1)
         \cup { Append(l, x) : l \in { m \in SourceLists(n - 1) : Len(m) = n - 1 },
                               x \in SourceNames }

\* One call: its arguments, the path it returned, and the content of the
\* file at that path when it returned
Call(sources, dir, port, path, file) ==
    [sources |-> sources, dir |-> dir, port |-> port, path |-> path, file |-> file]

NoGen == [calls |-> <<>>, files |-> [d \in OutputDirs |-> NoViewer]]

(* ================= process_raster_cli and the spawned tool ============= *)
\* script: the lines the tool has still to write, each to "stdout" or to
\* "stderr"; out, err: the lines held by the two pipes; child: the tool;
\* rc: the code it exits with; driver: where process_raster_cli is;
\* returned: what it returned
NoPipe == [script |-> <<>>, out |-> 0, err |-> 0, child |-> "none", rc |-> 0,
           driver |-> "none", returned |-> "none"]

\* The sequences of at most n writes
RECURSIVE Scripts(_)
Scripts(n) ==
    IF n = 0 THEN { <<>> }
    ELSE Scripts(n - 1)
         \cup { Append(w, d) : w \in { v \in Scripts(n - 1) : Len(v) = n - 1 },
                               d \in {"stdout", "stderr"} }

\* lines 66-73 and 87-89: subprocess.Popen with stdout=PIPE and stderr=PIPE;
\* a tool that cannot be started raises, and the function returns False
Popen ==
    /\ prog = "process_raster_cli"
    /\ pipe.driver = "popen"
    /\ IF env.gdal2tiles = "missing"
       THEN pipe' = [pipe EXCEPT !.driver = "returned", !.returned = "False"]
       ELSE pipe' = [pipe EXCEPT !.driver = "read_stdout", !.child = "running"]
    /\ UNCHANGED << gen, prog, args, env, pc, driverVars, exitCode, serverVars, proc >>

\* The tool writes its next line; the write blocks while the pipe is full
ToolWrite ==
    /\ prog = "process_raster_cli"
    /\ pipe.child = "running"
    /\ pipe.script # <<>>
    /\ \/ /\ Head(pipe.script) = "stdout"
          /\ pipe.out < PipeCapacity
          /\ pipe' = [pipe EXCEPT !.out = @ + 1, !.script = Tail(@)]
       \/ /\ Head(pipe.script) = "stderr"
          /\ pipe.err < PipeCapacity
          /\ pipe' = [pipe EXCEPT !.err = @ + 1, !.script = Tail(@)]
    /\ UNCHANGED << gen, prog, args, env, pc, driverVars, exitCode, serverVars, proc >>

\* The tool has written everything: it exits, which closes its ends of the pipes
ToolExit ==
    /\ prog = "process_raster_cli"
    /\ pipe.child = "running"
    /\ pipe.script = <<>>
    /\ pipe' = [pipe EXCEPT !.child = "exited"]
    /\ UNCHANGED << gen, prog, args, env, pc, driverVars, exitCode, serverVars, proc >>

\* lines 76-77: for line in process.stdout, one line read
ReadStdout ==
    /\ prog = "process_raster_cli"
    /\ pipe.driver = "read_stdout"
    /\ pipe.out > 0
    /\ pipe' = [pipe EXCEPT !.out = @ - 1]
    /\ UNCHANGED << gen, prog, args, env, pc, driverVars, exitCode, serverVars, proc >>

\* lines 76-77: the loop ends at end-of-file, when the pipe is empty and the
\* tool has closed its end
StdoutEOF ==
    /\ prog = "process_raster_cli"
    /\ pipe.driver = "read_stdout"
    /\ pipe.out = 0
    /\ pipe.child = "exited"
    /\ pipe' = [pipe EXCEPT !.driver = "wait"]
    /\ UNCHANGED << gen, prog, args, env, pc, driverVars, exitCode, serverVars, proc >>

\* lines 80-86: process.wait(), then stderr is read when the code is not 0
WaitAndReturn ==
    /\ prog = "process_raster_cli"
    /\ pipe.driver = "wait"
    /\ pipe.child = "exited"
    /\ pipe' = [pipe EXCEPT !.driver = "returned",
                            !.err = IF pipe.rc # 0 THEN 0 ELSE @,
                            !.returned = IF process_raster_cli(pipe.rc) THEN "True"
                                         ELSE "False"]
    /\ UNCHANGED << gen, prog, args, env, pc, driverVars, exitCode, serverVars, proc >>

\* generate_html_viewer(sources, output_dir, port), lines 87-218
CallGenerate ==
    /\ prog = "generate_html_viewer"
    /\ Len(gen.calls) < MaxCalls
    /\ \E sources \in SourceLists(MaxSources), dir \in OutputDirs, port \in Ports :
          LET written == write_file(gen.files[dir], generate_html_viewer(sources, port))
          IN  gen' = [calls |-> Append(gen.calls,
                                       Call(sources, dir, port, html_path(dir), written)),
                      files |-> [gen.files EXCEPT ![dir] = written]]
    /\ UNCHANGED << pipe, prog, args, env, pc, driverVars, exitCode, serverVars, proc >>

(* ============================ specifications =========================== *)
Formats == {"png", "jpg", "webp"}
ToolStates == {"ok", "missing", "broken"}

DefaultArgs ==
    [format |-> "png", port |-> 8090, serve_only |-> FALSE, force_cli |-> FALSE,
     single_file |-> NoFile]
DefaultEnv ==
    [listing |-> <<>>, gdal2tiles |-> "ok", gdal_translate |-> "ok",
     HAS_GDAL |-> FALSE, RASTER_TILER_AVAILABLE |-> FALSE,
     input_dir |-> TRUE, output_dir |-> TRUE]
EmptyFs ==
    [input_exists |-> TRUE, output_exists |-> TRUE, vrts |-> {}, unremoved |-> {},
     tiledirs |-> {}, viewer |-> NoViewer]

\* What every script starts from
InitCommon ==
    /\ gen = NoGen
    /\ pipe = NoPipe
    /\ tif_files = <<>>
    /\ idx = 0
    /\ processed_sources = <<>>
    /\ success_count = 0
    /\ invocations = <<>>
    /\ clock = 0
    /\ exitCode = -1
    /\ handler = "none"
    /\ srv = "none"
    /\ sock = "none"
    /\ proc = "running"
    /\ nreq = 0
    /\ lastReq = NoRequest
    /\ resp = NoResponse
    /\ fsops = <<>>

\* python raster_tiles.py ...: the command line and the machine
InitRasterTiles ==
    /\ prog = "raster_tiles"
    /\ pc = "main"
    /\ \E fmt \in Formats, port \in Ports, so \in BOOLEAN, fc \in BOOLEAN :
          args = [DefaultArgs EXCEPT !.format = fmt, !.port = port,
                                     !.serve_only = so, !.force_cli = fc]
    /\ \E l \in Listings, g \in ToolStates, ta \in BOOLEAN, ie \in BOOLEAN, oe \in BOOLEAN :
          env = [DefaultEnv EXCEPT !.listing = l, !.gdal2tiles = g,
                                   !.RASTER_TILER_AVAILABLE = ta,
                                   !.input_dir = ie, !.output_dir = oe]
    \* --force-cli is read only when RasterTiler was imported (line 357), and a
    \* run that starts without its output directory takes the default format
    /\ (args.force_cli => env.RASTER_TILER_AVAILABLE)
    /\ (~env.output_dir => args.format = DefaultArgs.format)
    /\ \E old \in SUBSET {"old"} :
          /\ (~env.input_dir => env.listing = <<>>)
          /\ (~env.output_dir => old = {})
          /\ fs = [EmptyFs EXCEPT !.input_exists = env.input_dir,
                                  !.output_exists = env.output_dir,
                                  !.tiledirs = old]

\* python raster_tiles_v2.py --input-dir ... --output-dir ...
InitV2 ==
    /\ prog = "raster_tiles_v2"
    /\ pc = "main"
    /\ \E fmt \in Formats, sf \in {NoFile, File("beta", "TIF")} :
          args = [DefaultArgs EXCEPT !.format = fmt, !.single_file = sf]
    /\ \E l \in Listings, g \in ToolStates, gt \in ToolStates, hg \in BOOLEAN,
          ie \in BOOLEAN, oe \in BOOLEAN :
          env = [DefaultEnv EXCEPT !.listing = l, !.gdal2tiles = g,
                                   !.gdal_translate = gt, !.HAS_GDAL = hg,
                                   !.input_dir = ie, !.output_dir = oe]
    /\ (~env.input_dir => env.listing = <<>>)
    /\ fs = [EmptyFs EXCEPT !.input_exists = env.input_dir,
                            !.output_exists = env.output_dir]

\* The two batch drivers, from the command line to the end of the process
Init == InitCommon /\ (InitRasterTiles \/ InitV2)

Next ==
    \/ MainSetup
    \/ TilerProcessAll
    \/ CliBegin
    \/ CliFile
    \/ ServeOnlyScan
    \/ WriteViewer
    \/ StartServer
    \/ Interrupt
    \/ ProcessExit
    \/ V2Check
    \/ V2Scan
    \/ V2File
    \/ V2Exit

Spec == Init /\ [][Next]_vars

\* The two servers: python cors_server.py, and start_server as main calls it
\* once the viewer is written
InitServer ==
    /\ InitCommon
    /\ args = DefaultArgs
    /\ env = DefaultEnv
    /\ \/ /\ prog = "cors_server"
          /\ pc = "main"
          /\ fs = EmptyFs
       \/ /\ prog = "raster_tiles"
          /\ pc = "server"
          /\ fs = [EmptyFs EXCEPT !.tiledirs = {"alpha"},
                                  !.viewer = generate_html_viewer(<<"alpha">>, 8090)]

NextServer ==
    \/ CorsMain
    \/ StartServer
    \/ HandleRequest
    \/ Interrupt
    \/ ProcessExit

SpecServer == InitServer /\ [][NextServer]_vars

\* generate_html_viewer called some times in a row, on output directories
\* that may hold a viewer.html already
InitViewer ==
    /\ prog = "generate_html_viewer"
    /\ pc = "call"
    /\ args = DefaultArgs
    /\ env = DefaultEnv
    /\ fs = EmptyFs
    /\ pipe = NoPipe
    /\ \E stale \in SUBSET OutputDirs :
          gen = [calls |-> <<>>,
                 files |-> [d \in OutputDirs |->
                              IF d \in stale THEN << Text("an older viewer.html") >>
                              ELSE NoViewer]]
    /\ tif_files = <<>> /\ idx = 0 /\ processed_sources = <<>> /\ success_count = 0
    /\ invocations = <<>> /\ clock = 0 /\ exitCode = -1
    /\ handler = "none" /\ srv = "none" /\ sock = "none" /\ proc = "running"
    /\ nreq = 0 /\ lastReq = NoRequest /\ resp = NoResponse /\ fsops = <<>>

NextViewer == CallGenerate

SpecViewer == InitViewer /\ [][NextViewer]_vars

\* process_raster_cli called once, on a tool that writes any lines to its
\* stdout and stderr in any order and then exits with any code
InitPipe ==
    /\ prog = "process_raster_cli"
    /\ pc = "call"
    /\ args = DefaultArgs
    /\ \E g \in {"ok", "missing"} : env = [DefaultEnv EXCEPT !.gdal2tiles = g]
    /\ fs = EmptyFs
    /\ gen = NoGen
    /\ \E script \in Scripts(MaxWrites), rc \in {0, 1} :
          pipe = [script |-> script, out |-> 0, err |-> 0, child |-> "none", rc |-> rc,
                  driver |-> "popen", returned |-> "none"]
    /\ tif_files = <<>> /\ idx = 0 /\ processed_sources = <<>> /\ success_count = 0
    /\ invocations = <<>> /\ clock = 0 /\ exitCode = -1
    /\ handler = "none" /\ srv = "none" /\ sock = "none" /\ proc = "running"
    /\ nreq = 0 /\ lastReq = NoRequest /\ resp = NoResponse /\ fsops = <<>>

NextPipe == Popen \/ ToolWrite \/ ToolExit \/ ReadStdout \/ StdoutEOF \/ WaitAndReturn

SpecPipe == InitPipe /\ [][NextPipe]_vars


(* ================================ claims =============================== *)
HasHeader(r, name, value) == \E k \in 1..Len(r.headers) : r.headers[k] = Hdr(name, value)
HasHeaderNamed(r, name) == \E k \in 1..Len(r.headers) : r.headers[k][1] = name

\* C1: every response of the server, whatever its status and whichever of the
\* two handler classes sent it, carries Access-Control-Allow-Origin: *,
\* Access-Control-Allow-Methods: GET, OPTIONS and an
\* Access-Control-Allow-Headers header.
C1_CorsHeadersOnEveryResponse ==
    nreq > 0 =>
        /\ HasHeader(resp, "Access-Control-Allow-Origin", "*")
        /\ HasHeader(resp, "Access-Control-Allow-Methods", "GET, OPTIONS")
        /\ HasHeaderNamed(resp, "Access-Control-Allow-Headers")

\* A GET of a missing file was answered 404 by the RasterTileServer class,
\* with the header
C1_Witness ==
    /\ nreq > 0
    /\ handler = "RasterTileServer"
    /\ lastReq.method = "GET"
    /\ PathKind[lastReq.path] = "missing"
    /\ resp.status = 404
    /\ HasHeader(resp, "Access-Control-Allow-Origin", "*")

\* C2: an OPTIONS request for any path is answered 200 with an empty body and
\* without a single filesystem call.
C2_OptionsEmpty200NoFilesystem ==
    (nreq > 0 /\ lastReq.method = "OPTIONS") =>
        /\ resp.status = 200
        /\ resp.body = <<>>
        /\ fsops = <<>>

\* An OPTIONS request for a missing path was answered
C2_Witness ==
    /\ nreq > 0
    /\ lastReq.method = "OPTIONS"
    /\ PathKind[lastReq.path] = "missing"
    /\ resp.status = 200
    /\ handler = "CORSHTTPRequestHandler"

\* C10: the server is listening or stopped.  It leaves listening only for
\* stopped and only by the interrupt; once stopped it stays stopped, accepts
\* no further request, and the one thing that still happens is the end of the
\* process, which leaves the listening socket closed.  Requests are accepted
\* only while it listens.
C10_ListeningThenStopped ==
    [][ /\ (srv = "listening" /\ srv' # srv) => (Interrupt /\ srv' = "stopped")
        /\ (srv = "stopped") =>
              /\ srv' = "stopped"
              /\ nreq' = nreq
              /\ resp' = resp
              /\ (vars' # vars => (proc' = "exited" /\ sock' = "closed"))
        /\ (nreq' # nreq) => (srv = "listening" /\ srv' = "listening")
        /\ (srv' = "stopped" /\ proc' = "running") => (ENABLED ProcessExit)'
      ]_vars

\* raster_tiles.start_server answered a request, was interrupted, and the
\* process ended
C10_Witness ==
    /\ prog = "raster_tiles"
    /\ srv = "stopped"
    /\ proc = "exited"
    /\ sock = "closed"
    /\ nreq > 0


(* ----------------------- claims about the drivers ---------------------- *)
\* The first process each driver spawns for an input file
FirstTool == IF prog = "raster_tiles" THEN "gdalwarp" ELSE "gdal2tiles.py"

\* The input files an external processor was started for, in order
RECURSIVE AttemptedIn(_)
AttemptedIn(log) ==
    IF log = <<>> THEN <<>>
    ELSE (IF Head(log).file # VersionArg /\ Head(log).tool = FirstTool
          THEN << Head(log).file >> ELSE <<>>) \o AttemptedIn(Tail(log))
Attempted == AttemptedIn(invocations)

\* The up-front probe ran and reported the tool unavailable / available
ProbeFailed == invocations # <<>> /\ invocations[1].file = VersionArg /\ invocations[1].rc # 0
ProbePassed == invocations # <<>> /\ invocations[1].file = VersionArg /\ invocations[1].rc = 0

\* process_with_gdal_cli has returned / raster_tiles_v2.main is past its loop
CliReturned ==
    prog = "raster_tiles" /\ invocations # <<>> /\ pc \notin {"cli", "cli_loop"}
V2Finished ==
    prog = "raster_tiles_v2" /\ args.single_file = NoFile /\ pc \in {"v2_done", "exited"}

\* A processor was started for f and every process started for it exited 0
FileOk(f) ==
    /\ \E k \in 1..Len(invocations) : invocations[k].file = f
    /\ \A k \in 1..Len(invocations) : invocations[k].file = f => invocations[k].rc = 0

RECURSIVE OkNames(_)
OkNames(files) ==
    IF files = <<>> THEN <<>>
    ELSE (IF FileOk(Head(files)) THEN << Head(files).stem >> ELSE <<>>) \o OkNames(Tail(files))

\* C3 (the claim as stated): with the tool available, both drivers start one
\* external processor per file of the input directory whose name ends in .tif
\* or .tiff in any case, and none for the others.
C3_OneInvocationPerRasterFile ==
    /\ (CliReturned /\ ProbePassed) => Attempted = ListTifFiles(env.listing)
    /\ (V2Finished /\ env.gdal_translate = "ok" /\ env.gdal2tiles = "ok")
          => Attempted = ListTifFiles(env.listing)

\* C4 (the claim as stated): when the probe reports the tool unavailable the
\* driver starts no processor for any input file and the run ends as a
\* failure: no viewer is written, no server is started, the exit code is not 0.
C4_UnavailableToolIsFatal ==
    ProbeFailed =>
        /\ Attempted = <<>>
        /\ fs.viewer = NoViewer
        /\ srv = "none"
        /\ (proc = "exited" => exitCode # 0)

\* C5: a failing file is skipped and the loop goes on to every remaining
\* file; when the driver returns, the sources reported processed are the
\* files all of whose processes exited 0, once each, in scan order
\* (raster_tiles.py reports the list of names, raster_tiles_v2.py their count).
C5_ProcessedAreExactlyTheSuccesses ==
    /\ (prog = "raster_tiles" /\ tif_files # <<>> /\ pc # "cli_loop") =>
          /\ Attempted = tif_files
          /\ processed_sources = OkNames(tif_files)
    /\ (prog = "raster_tiles_v2" /\ tif_files # <<>> /\ pc # "v2_loop") =>
          /\ Attempted = tif_files
          /\ success_count = Len(OkNames(tif_files))

\* process_with_gdal_cli returned after a file whose tiling failed was
\* followed by a file that was processed
C5_Witness ==
    /\ prog = "raster_tiles"
    /\ pc = "viewer"
    /\ Len(tif_files) >= 2
    /\ \E i, j \in 1..Len(tif_files) :
          /\ i < j
          /\ ~FileOk(tif_files[i])
          /\ \E k \in 1..Len(invocations) :
                invocations[k] = Invocation("gdal2tiles.py", tif_files[i], 1)
          /\ FileOk(tif_files[j])
    /\ Len(processed_sources) >= 1

\* The driver looked for input files and found none
NoInputFilesFound ==
    \/ prog = "raster_tiles" /\ ProbePassed /\ tif_files = <<>> /\ pc # "cli"
    \/ prog = "raster_tiles_v2" /\ tif_files = <<>> /\ pc = "exited" /\ ~ProbeFailed
\* The tool is unavailable: the probe failed (and, for raster_tiles_v2.py,
\* the Python bindings are missing as well)
ToolUnavailable == ProbeFailed /\ (prog = "raster_tiles_v2" => ~env.HAS_GDAL)
\* The driver processed every file it found
AllProcessed == tif_files # <<>> /\ Attempted = tif_files /\ Len(OkNames(tif_files)) = Len(tif_files)

\* C6 (the claim as stated): the exit code of either driver is 0 when every
\* input file was processed, and 1 when no input file was found or the tool
\* is unavailable.
C6_ExitCodes ==
    (proc = "exited" /\ ~args.serve_only) =>
        /\ (AllProcessed => exitCode = 0)
        /\ ((NoInputFilesFound \/ ToolUnavailable) => exitCode = 1)

\* C7 (the claim as stated): once process_with_gdal_cli has returned, no
\* temporary VRT of the run is left in the output directory, whether the
\* reprojection or the tiling of a file succeeded or failed (a file that
\* os.remove itself could not delete is not counted against the claim).
C7_NoTemporaryLeft ==
    CliReturned => fs.vrts \subseteq fs.unremoved

\* The tile layers of the written document: those of the sources, and the rest
RECURSIVE LayersOf(_, _)
LayersOf(doc, ofSources) ==
    IF doc = <<>> THEN <<>>
    ELSE (IF Head(doc).kind = "tileLayer" /\ ((Head(doc).key # "") = ofSources)
          THEN << Head(doc) >> ELSE <<>>) \o LayersOf(Tail(doc), ofSources)

\* C8: the document generate_html_viewer writes for k sources and port p has
\* exactly k source layers, the i-th for the i-th source and with the URL
\* http://localhost:p/<source_i>/{z}/{x}/{y}.png, and exactly one base layer.
C8_ViewerLayers ==
    fs.viewer # NoViewer =>
        LET layers == LayersOf(fs.viewer, TRUE)
            port == IF args.port = 8090 THEN "8090" ELSE "8091"
        IN  /\ Len(layers) = Len(processed_sources)
            /\ \A i \in 1..Len(layers) :
                  /\ layers[i].key = processed_sources[i]
                  /\ layers[i].url = << "http://localhost:", port, "/", processed_sources[i],
                                        "/{z}/{x}/{y}", ".png" >>
            /\ Len(LayersOf(fs.viewer, FALSE)) = 1

\* The viewer was written for the sources alpha and beta and port 8090
C8_Witness ==
    /\ fs.viewer # NoViewer
    /\ processed_sources = << "alpha", "beta" >>
    /\ args.port = 8090
    /\ Len(LayersOf(fs.viewer, TRUE)) = 2

\* C9 (the claim as stated): every source layer's URL ends with the extension
\* of the tiles process_with_gdal_cli had gdal2tiles.py write for the
\* requested format.
C9_ViewerUrlExtension ==
    (fs.viewer # NoViewer /\ CliReturned) =>
        \A i \in 1..Len(LayersOf(fs.viewer, TRUE)) :
            LET url == LayersOf(fs.viewer, TRUE)[i].url
            IN  url[Len(url)] = TileExtension(format_map(args.format))


(* ----------------------- claims about directories ---------------------- *)
\* No later stage of the run happened: no processor started for an input
\* file, no viewer written, no server started, and no exit with code 0
RunStopped ==
    /\ Attempted = <<>>
    /\ fs.viewer = NoViewer
    /\ srv = "none"
    /\ (proc = "exited" => exitCode # 0)

OneAtATime(log) ==
    \A k \in 1..Len(log) :
        /\ (log[k].tool = "gdal2tiles.py" /\ log[k].file # VersionArg) =>
              (k > 1 /\ log[k - 1] = Invocation("gdalwarp", log[k].file, 0))
        /\ (log[k].tool = "gdalwarp" /\ log[k].rc = 0) =>
              (k < Len(log) /\ log[k + 1].tool = "gdal2tiles.py" /\ log[k + 1].file = log[k].file)

\* C12: in raster_tiles.main every external process has run to completion,
\* one file after the other in scan order, before the viewer is written; the
\* viewer is written, for the sources processed, before the server listens;
\* and the listening server is left only by the interrupt.
C12_StageOrder ==
    [][ prog = "raster_tiles" =>
          /\ (invocations' # invocations) =>
                /\ fs.viewer = NoViewer /\ fs'.viewer = NoViewer
                /\ srv = "none" /\ srv' = "none"
          /\ OneAtATime(invocations')
          /\ Attempted' = SubSeq(tif_files', 1, Len(Attempted'))
          /\ (fs'.viewer # fs.viewer) =>
                /\ srv = "none" /\ srv' = "none"
                /\ invocations' = invocations
                /\ (tif_files # <<>> => Attempted = tif_files)
                /\ fs'.viewer = generate_html_viewer(processed_sources, args.port)
          /\ (srv = "none" /\ srv' # "none") =>
                /\ srv' = "listening"
                /\ fs.viewer # NoViewer
                /\ fs'.viewer = fs.viewer
          /\ (srv = "listening") =>
                /\ proc' = "running"
                /\ (srv' # "listening" => Interrupt)
      ]_vars

\* raster_tiles.main processed two files, wrote the viewer and serves
C12_Witness ==
    /\ prog = "raster_tiles"
    /\ Len(Attempted) >= 2
    /\ Len(processed_sources) >= 1
    /\ fs.viewer # NoViewer
    /\ srv = "listening"


(* ------------------------ claims about the viewer ---------------------- *)
\* C13: a call of generate_html_viewer with the sources, output directory and
\* port of an earlier call returns the same path and leaves the file with
\* exactly the content the earlier call left.
C13_ViewerIdempotent ==
    \A i, j \in 1..Len(gen.calls) :
        ( /\ i < j
          /\ gen.calls[i].sources = gen.calls[j].sources
          /\ gen.calls[i].dir = gen.calls[j].dir
          /\ gen.calls[i].port = gen.calls[j].port )
        => /\ gen.calls[j].path = gen.calls[i].path
           /\ gen.calls[j].file = gen.calls[i].file
           /\ (j = Len(gen.calls) => gen.files[gen.calls[j].dir] = gen.calls[i].file)

\* generate_html_viewer ran twice for [alpha, beta], the same directory and
\* port 8090
C13_Witness ==
    /\ Len(gen.calls) = 2
    /\ gen.calls[1].sources = << "alpha", "beta" >>
    /\ gen.calls[2].sources = << "alpha", "beta" >>
    /\ gen.calls[1].dir = gen.calls[2].dir
    /\ gen.calls[1].port = 8090 /\ gen.calls[2].port = 8090
    /\ gen.files[gen.calls[2].dir] = gen.calls[1].file


(* ---------------------- claims about the spawned tool ------------------ *)
\* C14: process_raster_cli never waits forever: as long as it has not
\* returned, the tool or the driver can take a step, whatever the tool writes
\* to stdout and to stderr.
C14_DriverNeverWaitsForever ==
    (pipe.driver \in {"popen", "read_stdout", "wait"}) => ENABLED NextPipe

=============================================================================
